---------------------------- MODULE Spec2Model ----------------------------
(***************************************************************************)
(* Counterspot: the counting validation engine of src/src/index.ts.        *)
(*                                                                         *)
(* Numbers are JavaScript numbers; the model keeps them in fixed point,    *)
(* Unit to the whole, which is exact for every text of at most MaxLen      *)
(* characters (sums that binary floating point rounds are not modelled).  A handler runs atomically up to its first await (the       *)
(* JavaScript event loop), so every action below is one such run.          *)
(***************************************************************************)
EXTENDS Integers, Sequences, FiniteSets, Bags, TLC

VARIABLES
    phase,      \* "new" until the constructor has run ("failed" when it
                \* threw), "constructed" until launch() has registered
                \* handleMessage, then "running"
    config,     \* this.config, fixed at construction
    cache,      \* this.cache: lastCount, lastCounter, countStats (and shape:
                \* what kind of value loadCache put there)
    disk,       \* the file at config.cachePath
    writes,     \* contents of the writeJSON calls that have not completed
    handlers,   \* handleCount invocations suspended inside handleGoalReached
    last,       \* what the most recent step did (the observable outcome)
    accepted    \* the author of the most recent accepted message

vars == <<phase, config, cache, disk, writes, handlers, last, accepted>>

-----------------------------------------------------------------------------
(* Bounds of the model *)

\* longest message text
MaxLen == 3
\* largest whole number a participant posts
MaxCount == 3
\* largest tally a participant builds up before the model stops delivering
\* its messages
MaxTally == 2
\* messages suspended in goal handling at the same time
MaxInFlight == 2
\* writeJSON calls outstanding at the same time
MaxPending == 2
\* config.goal.multiple (100 by default), scaled down to the counts posted
GoalMultiple == 3
\* digits after the decimal point that the numbers of the model keep
FractionDigits == 4

RECURSIVE Pow10(_)
Pow10(n) == IF n = 0 THEN 1 ELSE 10 * Pow10(n - 1)

\* fixed-point unit: FractionDigits digits after the decimal point (a text of
\* MaxLen characters has at most MaxLen - 1 of them)
Unit == Pow10(FractionDigits)

-----------------------------------------------------------------------------
(* Values *)

Null == "null"
Users == {"A", "B"}
Bots == {"R"}
Authors == Users \cup Bots
CountingChannel == "counting"
Channels == {CountingChannel, "general"}

\* CountDirection, get-config.ts
NEGATIVE == -1
POSITIVE == 1

NaN == [nan |-> TRUE, val |-> 0]
Num(v) == [nan |-> FALSE, val |-> v]

Abs(x) == IF x < 0 THEN -x ELSE x

DigitChars == <<"0", "1", "2", "3", "4", "5", "6", "7", "8", "9">>
IsDigit(c) == \E i \in 1..10 : DigitChars[i] = c
DigitVal(c) == (CHOOSE i \in 1..10 : DigitChars[i] = c) - 1


-----------------------------------------------------------------------------
(* parseCount, index.ts 90-93 *)

\* content.split(" ")[0]: the text before the first space character
RECURSIVE FirstToken(_)
FirstToken(content) ==
    IF content = <<>> \/ Head(content) = " " THEN <<>>
    ELSE <<Head(content)>> \o FirstToken(Tail(content))

\* numberString.replace(/[^\d.]/g, ""): keep the digits and the points
RECURSIVE StripNonNumeric(_)
StripNonNumeric(s) ==
    IF s = <<>> THEN <<>>
    ELSE IF IsDigit(Head(s)) \/ Head(s) = "."
         THEN <<Head(s)>> \o StripNonNumeric(Tail(s))
         ELSE StripNonNumeric(Tail(s))

\* the leading run of digits of s
RECURSIVE DigitRun(_)
DigitRun(s) ==
    IF s = <<>> \/ ~IsDigit(Head(s)) THEN <<>>
    ELSE <<Head(s)>> \o DigitRun(Tail(s))

\* the whole number a run of digits denotes
RECURSIVE DigitsValue(_)
DigitsValue(ds) ==
    IF ds = <<>> THEN 0
    ELSE 10 * DigitsValue(SubSeq(ds, 1, Len(ds) - 1)) + DigitVal(ds[Len(ds)])

Drop(s, n) == SubSeq(s, n + 1, Len(s))

\* parseFloat on a text of digits and points: the longest prefix of the form
\* digits [. digits] or . digits, NaN when there is none
parseFloat(s) ==
    LET int  == DigitRun(s)
        rest == Drop(s, Len(int))
        frac == IF rest # <<>> /\ Head(rest) = "." THEN DigitRun(Tail(rest)) ELSE <<>>
    IN  IF int = <<>> /\ frac = <<>> THEN NaN
        ELSE Num(DigitsValue(int) * Unit
                 + (DigitsValue(frac) * Unit) \div Pow10(Len(frac)))

\* parseCount reading a leading minus sign as the sign of the number
parseCountSigned(content) ==
    LET token == FirstToken(content)
        magnitude == parseFloat(StripNonNumeric(token))
    IN  IF token # <<>> /\ Head(token) = "-" /\ ~magnitude.nan
            THEN Num(0 - magnitude.val)
        ELSE magnitude

parseCount(content) == parseFloat(StripNonNumeric(FirstToken(content)))

\* the text of a whole number below ten
Text(n) == <<DigitChars[n + 1]>>

\* message bodies the participants post
Bodies ==
    { Text(n) : n \in 0..MaxCount }
        \cup { <<"x">>, <<"1", ".", "5">>, <<"2", " ", "x">> }

\* message bodies with a minus sign
SignedBodies == { <<"-", "1">>, <<"-", "2">>, <<"-", ".", "5">> }

-----------------------------------------------------------------------------
(* Configuration, get-config.ts 49-92 *)

\* config.blacklist: a list of identifiers, or a value that is no list
\* (ids is then what the value holds)
Blacklists ==
    { [isArray |-> TRUE, ids |-> {}], [isArray |-> TRUE, ids |-> {"B"}],
      [isArray |-> FALSE, ids |-> {"B"}] }

\* goal.roles: an object whose achiever and assistant are role identifiers or
\* empty, or no object at all
NoRoles == [isObject |-> TRUE, achiever |-> FALSE, assistant |-> FALSE]
RolesSections ==
    { NoRoles,
      [isObject |-> TRUE, achiever |-> TRUE, assistant |-> TRUE],
      [isObject |-> FALSE, achiever |-> TRUE, assistant |-> TRUE] }

GoalSections ==
    { [ isObject |-> TRUE, isNullish |-> FALSE, announce |-> TRUE, multiple |-> GoalMultiple * Unit, reset |-> rs[1],
        resetValue |-> rs[2], roles |-> r, trackStatistics |-> t ] :
        rs \in {<<FALSE, 0>>, <<TRUE, 0>>, <<TRUE, Unit>>},
        r \in RolesSections, t \in BOOLEAN }

\* the sections as baseConfig has them (multiple scaled down)
BaseCount ==
    [ isNullish |-> FALSE, amount |-> Unit, direction |-> POSITIVE,
      multipleBySameUser |-> FALSE ]
BaseGoal ==
    [ isObject |-> TRUE, isNullish |-> FALSE, announce |-> TRUE, multiple |-> GoalMultiple * Unit, reset |-> FALSE,
      resetValue |-> 0, roles |-> NoRoles, trackStatistics |-> TRUE ]
BaseBlacklist == [isArray |-> TRUE, ids |-> {}]

\* config.goal when it is no goal section: isObject is what typeof gives,
\* isNullish whether reading a property of it throws.  Left out (undefined),
\* null, and false; a property read of false gives undefined
AbsentGoals ==
    { [BaseGoal EXCEPT !.isObject = FALSE, !.isNullish = TRUE],
      [BaseGoal EXCEPT !.isObject = TRUE, !.isNullish = TRUE],
      [BaseGoal EXCEPT !.isObject = FALSE, !.trackStatistics = FALSE] }

\* the counting sections: baseConfig's with each direction (any number that
\* is no CountDirection counts both ways), amount and turn policy
CountSections ==
    { [BaseCount EXCEPT !.direction = d] : d \in {NEGATIVE, 0, POSITIVE} }
        \cup { [BaseCount EXCEPT !.amount = 2 * Unit],
               [BaseCount EXCEPT !.multipleBySameUser = TRUE] }

\* a configuration object with its sections (isObject and isNullish as for
\* the goal section: what typeof gives, and whether it is undefined or null)
MakeConfig(b, c, g) ==
    [ isObject |-> TRUE, isNullish |-> FALSE, blacklist |-> b,
      channel |-> CountingChannel, count |-> c, goal |-> g ]

\* the configurations the store is examined with: baseConfig, with and without
\* the role grants
StoreConfigs ==
    { MakeConfig(BaseBlacklist, BaseCount, [BaseGoal EXCEPT !.roles = r]) :
        r \in {NoRoles, [isObject |-> TRUE, achiever |-> TRUE,
                         assistant |-> TRUE]} }

\* the configurations the engine is constructed with: baseConfig with every
\* blacklist, with every counting section and with every goal section
Configs ==
    { MakeConfig(b, BaseCount, BaseGoal) : b \in Blacklists }
        \cup { MakeConfig(BaseBlacklist, c, BaseGoal) : c \in CountSections }
        \cup { MakeConfig(BaseBlacklist, BaseCount, g) : g \in GoalSections }

-----------------------------------------------------------------------------
(* State *)

NoStats == [u \in {} |-> [counts |-> 0]]

\* the cache of a fresh engine, index.ts 40-44.  shape tells what this.cache
\* is: "state" an object with the three properties, "legacy" an object
\* without countStats (as the engine wrote it before it kept statistics),
\* "null" the value null
FreshCache ==
    [ shape |-> "state", countStats |-> NoStats, lastCount |-> 0,
      lastCounter |-> Null ]

\* a state an earlier run of the engine saved
StoredCache ==
    [ shape |-> "state", countStats |-> [u \in {"B"} |-> [counts |-> 1]],
      lastCount |-> Unit, lastCounter |-> "B" ]

\* what an earlier version of the engine saved: no countStats
LegacyCache == [StoredCache EXCEPT !.shape = "legacy", !.countStats = NoStats]

\* the JSON document null
NullCache == [FreshCache EXCEPT !.shape = "null"]

-----------------------------------------------------------------------------
(* The cache file: fse.writeJSON and fse.readJSON, index.ts 81 and 70 *)

\* the text of a whole number
RECURSIVE Digits(_)
Digits(n) ==
    IF n < 10 THEN <<DigitChars[n + 1]>>
    ELSE Digits(n \div 10) \o <<DigitChars[(n % 10) + 1]>>

\* the digits of the fraction f (of width digits) without trailing zeros
RECURSIVE Fraction(_, _)
Fraction(f, width) ==
    IF f = 0 THEN <<>>
    ELSE LET p == Pow10(width - 1)
         IN  <<DigitChars[(f \div p) + 1]>> \o Fraction(f % p, width - 1)

\* a number written without its fraction
numberTextWhole(v) ==
    (IF v < 0 THEN <<"-">> ELSE <<>>) \o Digits(Abs(v) \div Unit)

\* a number as JSON.stringify writes it
numberText(v) ==
    (IF v < 0 THEN <<"-">> ELSE <<>>)
        \o Digits(Abs(v) \div Unit)
        \o (IF Abs(v) % Unit = 0 THEN <<>>
            ELSE <<".">> \o Fraction(Abs(v) % Unit, FractionDigits))

\* the members of countStats, one after another
RECURSIVE statsText(_)
statsText(stats) ==
    IF DOMAIN stats = {} THEN <<>>
    ELSE LET u == CHOOSE x \in DOMAIN stats : TRUE
             rest == [x \in DOMAIN stats \ {u} |-> stats[x]]
         IN  <<u, ":", "{", "counts", ":">>
                 \o numberText(stats[u].counts * Unit) \o <<"}">>
                 \o (IF DOMAIN rest = {} THEN <<>> ELSE <<",">>)
                 \o statsText(rest)

\* JSON.stringify(this.cache): the text, token by token (a string is one
\* token, a number one token per character)
stringify(c) ==
    IF c.shape = "null" THEN <<"null">>
    ELSE <<"{">>
           \o (IF c.shape = "legacy" THEN <<>>
               ELSE <<"countStats", ":", "{">> \o statsText(c.countStats)
                        \o <<"}", ",">>)
           \o <<"lastCount", ":">> \o numberText(c.lastCount)
           \o <<",", "lastCounter", ":", c.lastCounter, "}">>

IsNumberChar(t) == IsDigit(t) \/ t \in {"-", "."}

RECURSIVE NumberRun(_)
NumberRun(t) ==
    IF t = <<>> \/ ~IsNumberChar(Head(t)) THEN <<>>
    ELSE <<Head(t)>> \o NumberRun(Tail(t))

\* the number a JSON number denotes
numberValue(t) ==
    IF Head(t) = "-" THEN 0 - parseFloat(Tail(t)).val ELSE parseFloat(t).val

\* JSON.parse, by recursive descent: the value at the head of the text and
\* the text after it
RECURSIVE parseValue(_), parseMembers(_, _)
parseValue(t) ==
    IF Head(t) = "{" THEN parseMembers(Tail(t), <<>>)
    ELSE IF Head(t) = "null"
        THEN [value |-> [type |-> "null"], rest |-> Tail(t)]
    ELSE IF IsNumberChar(Head(t))
        THEN [ value |-> [type |-> "number", number |-> numberValue(NumberRun(t))],
               rest |-> Drop(t, Len(NumberRun(t))) ]
    ELSE [value |-> [type |-> "string", string |-> Head(t)], rest |-> Tail(t)]

parseMembers(t, members) ==
    IF Head(t) = "}"
        THEN [value |-> [type |-> "object", members |-> members], rest |-> Tail(t)]
    ELSE IF Head(t) = "," THEN parseMembers(Tail(t), members)
    ELSE LET member == parseValue(Tail(Tail(t)))
         IN  parseMembers(member.rest, members @@ (Head(t) :> member.value))

\* this.cache = the parsed value (index.ts 70), as the engine will read it
asCache(v) ==
    IF v.type = "null" THEN NullCache
    ELSE LET m == v.members
         IN  [ shape |-> IF "countStats" \in DOMAIN m THEN "state" ELSE "legacy",
               countStats |->
                   IF "countStats" \in DOMAIN m
                       THEN [ u \in DOMAIN m.countStats.members |->
                                [counts |-> m.countStats.members[u].members
                                                .counts.number \div Unit] ]
                       ELSE NoStats,
               lastCount |-> m.lastCount.number,
               lastCounter |-> IF m.lastCounter.type = "null" THEN Null
                               ELSE m.lastCounter.string ]

parseJson(t) == asCache(parseValue(t).value)

\* the file: absent, a JSON text, or a text that is no JSON
Missing == [kind |-> "missing", value |-> <<>>]
Json(c) == [kind |-> "json", value |-> stringify(c)]
Garbled == [kind |-> "garbled", value |-> <<"{">>]

-----------------------------------------------------------------------------

\* the suspended handlers, each with the await it is at, its message's author
\* and count, the lastCount the count was validated against (seen) and the
\* lastCounter it asked the guild for (prior)
Active == BagToSet(handlers)
Suspend(h) == handlers (+) SetToBag({h})
Resume(h) == handlers (-) SetToBag({h})

\* the count of every body, as parseCount finds it
Parsed == [b \in Bodies \cup SignedBodies |-> parseCount(b)]

\* what a step did: the handler's step, the message (its author, its channel
\* and the count its text parses to), the outcome, whether the count reached
\* a goal, whether saveCache was called, the role grants that were
\* attempted, and the notifications the step sent (none unless Sending says so)
Event(step, author, channel, count, outcome, goal, saved, tried) ==
    [ step |-> step, author |-> author, channel |-> channel, count |-> count,
      outcome |-> outcome, goal |-> goal, saved |-> saved, tried |-> tried,
      sent |-> <<>> ]
Sending(event, notifications) == [event EXCEPT !.sent = notifications]
NoEvent(step) == Event(step, Null, "", NaN, "", FALSE, FALSE, {})
Handled(m, outcome, goal, saved) ==
    Event("message", m.author, m.channel, Parsed[m.body], outcome, goal,
          saved, {})

Init ==
    /\ phase = "constructed"
    /\ config \in Configs
    /\ cache = FreshCache
    /\ disk \in {Missing, Json(StoredCache)}
    /\ writes = {}
    /\ handlers = EmptyBag
    /\ last = NoEvent("none")
    /\ accepted = Null

-----------------------------------------------------------------------------
(* The engine's functions *)

\* isBlacklisted without its Array.isArray guard: any value that holds the
\* identifier blacklists it
isBlacklistedUnguarded(user) == user \in config.blacklist.ids

\* index.ts 207-210
isBlacklisted(user) ==
    IF ~config.blacklist.isArray THEN FALSE
    ELSE user \in config.blacklist.ids

\* isCorrectCount comparing the offset with <= where the code has ===
isCorrectCountWithin(count) ==
    IF config.count.direction = NEGATIVE
        THEN count = cache.lastCount - config.count.amount
    ELSE IF config.count.direction = POSITIVE
        THEN count = cache.lastCount + config.count.amount
    ELSE Abs(cache.lastCount - count) <= config.count.amount

\* index.ts 100-108
isCorrectCount(count) ==
    IF config.count.direction = NEGATIVE
        THEN count = cache.lastCount - config.count.amount
    ELSE IF config.count.direction = POSITIVE
        THEN count = cache.lastCount + config.count.amount
    ELSE Abs(cache.lastCount - count) = config.count.amount

\* the tally of the author created anew whenever it is counted
recordCountAnew(stats, author) ==
    IF ~config.goal.trackStatistics THEN stats
    ELSE [ u \in DOMAIN stats \cup {author} |->
             IF u = author THEN [counts |-> 1] ELSE stats[u] ]

\* index.ts 301-309: the tally of the author, created at 0 first, plus one
recordCount(stats, author) ==
    IF ~config.goal.trackStatistics THEN stats
    ELSE LET old == IF author \in DOMAIN stats THEN stats[author].counts ELSE 0
         IN  [ u \in DOMAIN stats \cup {author} |->
                 IF u = author THEN [counts |-> old + 1] ELSE stats[u] ]

\* index.ts 311 (count % multiple === 0 is decided by divisibility whatever
\* the sign of count)
reachedGoal(count) ==
    config.goal.isObject /\ count % config.goal.multiple = 0

\* index.ts 318
nextLastCount(count, goal) ==
    IF goal /\ config.goal.reset THEN config.goal.resetValue ELSE count

\* handleCount with the turn checked before the value
validateCountTurnFirst(author, count) ==
    IF count.nan THEN "NotANumber"
    ELSE IF config.count.isNullish \/ cache.shape = "null" THEN "Threw"
    ELSE IF cache.lastCounter = author /\ ~config.count.multipleBySameUser
        THEN "RepeatedTurn"
    ELSE IF ~isCorrectCount(count.val) THEN "WrongValue"
    ELSE "Accepted"

\* index.ts 282-299: what handleCount decides before it changes anything;
\* reading this.config.count.direction (index.ts 101) is a TypeError when the
\* configuration has no count section, and so is reading this.cache.lastCount
\* (index.ts 102-107) when this.cache is null
validateCount(author, count) ==
    IF count.nan THEN "NotANumber"
    ELSE IF config.count.isNullish \/ cache.shape = "null" THEN "Threw"
    ELSE IF ~isCorrectCount(count.val) THEN "WrongValue"
    ELSE IF cache.lastCounter = author /\ ~config.count.multipleBySameUser
        THEN "RepeatedTurn"
    ELSE "Accepted"

\* index.ts 269-278: the guards of handleMessage, then handleCount's
validateMessage(m) ==
    IF m.author \in Bots THEN "IgnoredBot"
    ELSE IF m.channel # config.channel THEN "IgnoredChannel"
    ELSE IF isBlacklisted(m.author) THEN "Blacklisted"
    ELSE validateCount(m.author, Parsed[m.body])

Rejections == {"Blacklisted", "NotANumber", "WrongValue", "RepeatedTurn"}
Ignored == {"IgnoredBot", "IgnoredChannel"}

\* saveCache, index.ts 80-83: writeJSON serialises the cache when it is
\* called and completes later; the call is not awaited (index.ts 319)
CanSave(c) == c \in writes \/ Cardinality(writes) < MaxPending
saveCache(c) == writes \cup {c}

Tally(author) ==
    IF author \in DOMAIN cache.countStats
        THEN cache.countStats[author].counts ELSE 0

\* the inbound messages: the text is read only once the bot and channel
\* guards have passed (index.ts 277), so it varies only there
Messages ==
    { m \in [author : Authors, channel : Channels, body : Bodies] :
        m.author \in Bots \/ m.channel # CountingChannel => m.body = Text(1) }

-----------------------------------------------------------------------------
(* Actions *)

\* handleMessage listening from the moment launch is called
registeredFromCall == phase \in {"loading", "login", "running"}

\* handleMessage is a listener of messageCreate once launch has passed
\* index.ts 265, which is its last statement
registered == phase = "running"

\* the constructor, index.ts 46-61: it throws a TypeError when the
\* configuration is no object or is null, and keeps it otherwise, whatever
\* sections it has
construct ==
    /\ phase = "new"
    /\ LET threw == ~config.isObject \/ config.isNullish
       IN  /\ phase' = IF threw THEN "failed" ELSE "constructed"
           /\ last' = [NoEvent("construct") EXCEPT
                         !.outcome = IF threw THEN "Threw" ELSE "Constructed"]
    /\ UNCHANGED <<config, cache, disk, writes, handlers, accepted>>

\* what loadCache leaves in this.cache, index.ts 69-73: the parsed file, or
\* the cache as it is when readJSON fails
loaded == IF disk.kind = "json" THEN parseJson(disk.value) ELSE cache

\* launch, index.ts 256-266, with loadCache, index.ts 67-75: the stored state
\* replaces the cache when it can be read, and handleMessage is registered
launch ==
    /\ phase = "constructed"
    /\ phase' = "running"
    /\ cache' = loaded
    /\ last' = NoEvent("launch")
    /\ UNCHANGED <<config, disk, writes, handlers, accepted>>

\* launch step by step.  It is called and runs into loadCache up to the await
\* of readJSON, index.ts 256-257 and 68-70
beginLaunch ==
    /\ phase = "constructed"
    /\ phase' = "loading"
    /\ last' = NoEvent("launching")
    /\ UNCHANGED <<config, cache, disk, writes, handlers, accepted>>

\* readJSON settles, index.ts 70-74: the cache takes what was read, and
\* launch goes on to log the client in, index.ts 259
readJSONDone ==
    /\ phase = "loading"
    /\ phase' = "login"
    /\ cache' = loaded
    /\ last' = NoEvent("loaded")
    /\ UNCHANGED <<config, disk, writes, handlers, accepted>>

\* the client is logged in (and the log channel fetched), index.ts 259-263,
\* and handleMessage is registered, index.ts 265
loginDone ==
    /\ phase = "login"
    /\ phase' = "running"
    /\ last' = NoEvent("launch")
    /\ UNCHANGED <<config, cache, disk, writes, handlers, accepted>>

\* a message the client receives once it is logged in while handleMessage is
\* no listener yet: nothing handles it
unheard(m) ==
    /\ phase = "login"
    /\ ~registered
    /\ last' = [NoEvent("unheard") EXCEPT !.author = m.author,
                                         !.channel = m.channel]
    /\ UNCHANGED <<phase, config, cache, disk, writes, handlers, accepted>>

\* getLocaleCount, index.ts 115-117: the number that
\* count.toLocaleString("en-US") shows, which has at most three digits after
\* the decimal point, rounded half away from zero (the grouping of the
\* thousands does not change the number shown)
getLocaleCount(count) ==
    LET step == Unit \div Pow10(3)
        shown == ((Abs(count) + step \div 2) \div step) * step
    IN  IF count < 0 THEN 0 - shown ELSE shown

\* getExpectedCount, index.ts 123-135: the counts named in the report, in
\* the order they are named
getExpectedCount ==
    IF config.count.direction = NEGATIVE
        THEN <<getLocaleCount(cache.lastCount - config.count.amount)>>
    ELSE IF config.count.direction = POSITIVE
        THEN <<getLocaleCount(cache.lastCount + config.count.amount)>>
    ELSE << getLocaleCount(cache.lastCount - config.count.amount),
            getLocaleCount(cache.lastCount + config.count.amount) >>

\* a report that sends nothing
reportCountIssueSilent(m, issue) == <<>>

\* reportCountIssue, index.ts 164-200: one embed sent to the channel of the
\* message, with the issue (index.ts 273, 283, 288, 298) and, for a wrong
\* value, the expected count in its text
reportCountIssue(m, issue) ==
    << [ kind |-> "issue", channel |-> m.channel, issue |-> issue,
         expected |-> IF issue = "WrongValue" THEN getExpectedCount ELSE <<>> ] >>

\* what a message that is not accepted sends: index.ts 269-270 return without
\* a report
reports(m, outcome) ==
    IF outcome \in Rejections THEN reportCountIssue(m, outcome) ELSE <<>>

\* a rejection that has already recorded the author as the last counter
rejectRecorded(m, outcome) ==
    /\ last' = Sending(Handled(m, outcome, FALSE, FALSE), reports(m, outcome))
    /\ cache' = [cache EXCEPT !.lastCounter = m.author]
    /\ UNCHANGED <<phase, config, disk, writes, handlers, accepted>>

\* a message that is ignored or rejected: index.ts 269-274 and 282-299
reject(m, outcome) ==
    /\ last' = Sending(Handled(m, outcome, FALSE, FALSE), reports(m, outcome))
    /\ UNCHANGED <<phase, config, cache, disk, writes, handlers, accepted>>

\* a message whose handler throws: the promise handleMessage returned rejects
\* and nothing else happens
throw(m) ==
    /\ last' = Handled(m, "Threw", FALSE, FALSE)
    /\ UNCHANGED <<phase, config, cache, disk, writes, handlers, accepted>>

\* an accepted count that reaches no goal: index.ts 301-319 in one run
acceptCount(m, count) ==
    LET updated == [cache EXCEPT
                      !.countStats = recordCount(cache.countStats, m.author),
                      !.lastCount = nextLastCount(count, FALSE),
                      !.lastCounter = m.author]
    IN  /\ CanSave(updated)
        /\ cache' = updated
        /\ writes' = saveCache(updated)
        /\ last' = Handled(m, "Accepted", FALSE, TRUE)
        /\ accepted' = m.author
        /\ UNCHANGED <<phase, config, disk, handlers>>

\* the announcement of a goal, index.ts 335-339 and 363-369: it congratulates
\* the author, and credits the last counter with assistance when there is one
\* and it is not the author; it is sent when goal.announce is set
announcement(author) ==
    IF ~config.goal.announce THEN <<>>
    ELSE << [ kind |-> "goal", channel |-> config.channel, achiever |-> author,
              assistant |-> IF cache.lastCounter # Null
                                  /\ author # cache.lastCounter
                               THEN cache.lastCounter ELSE Null ] >>

\* the role a goal handler asks for at the await it suspends at: the achiever
\* role for the member who posted (index.ts 378), the assistant role for the
\* member fetched for the last counter (index.ts 371, 386)
roleRequest(h, pc) ==
    << [ kind |-> "role", role |-> pc,
         member |-> IF pc = "achiever" THEN h.author ELSE h.prior ] >>

\* a goal that keeps the tallies, the one of its author included
acceptGoalKeeping(m, count) ==
    /\ BagCardinality(handlers) < MaxInFlight
    /\ cache' = [cache EXCEPT
                    !.countStats = recordCount(cache.countStats, m.author)]
    /\ handlers' = Suspend([ pc |-> "fetch", author |-> m.author,
                             count |-> count, seen |-> cache.lastCount,
                             prior |-> cache.lastCounter ])
    /\ last' = Sending(Handled(m, "Accepted", TRUE, FALSE),
                       announcement(m.author))
    /\ accepted' = m.author
    /\ UNCHANGED <<phase, config, disk, writes>>

\* an accepted count that reaches a goal: index.ts 301-313 and
\* handleGoalReached up to its first await, index.ts 322-371
acceptGoal(m, count) ==
    /\ BagCardinality(handlers) < MaxInFlight
    /\ cache' = [cache EXCEPT !.countStats = NoStats]
    /\ handlers' = Suspend([ pc |-> "fetch", author |-> m.author,
                             count |-> count, seen |-> cache.lastCount,
                             prior |-> cache.lastCounter ])
    /\ last' = Sending(Handled(m, "Accepted", TRUE, FALSE),
                       announcement(m.author))
    /\ accepted' = m.author
    /\ UNCHANGED <<phase, config, disk, writes>>

\* an accepted count whose handler throws.  index.ts 301 reads
\* config.goal.trackStatistics, a TypeError when config.goal is undefined or
\* null.  On a cache without countStats, index.ts 302 reads
\* countStats[author] when statistics are tracked, and when they are not
\* handleGoalReached builds the statistics report (index.ts 354, 243)
throwsAccepting(count) ==
    \/ config.goal.isNullish
    \/ /\ cache.shape = "legacy"
       /\ config.goal.trackStatistics \/ reachedGoal(count)

\* handleMessage, index.ts 268-279, with handleCount, index.ts 281-320
handleMessage(m) ==
    /\ registered
    /\ LET outcome == validateMessage(m)
           count == Parsed[m.body].val
       IN  IF outcome = "Threw" \/ (outcome = "Accepted" /\ throwsAccepting(count))
               THEN throw(m)
           ELSE IF outcome # "Accepted" THEN reject(m, outcome)
           ELSE /\ Tally(m.author) < MaxTally
                /\ IF reachedGoal(count) THEN acceptGoal(m, count)
                   ELSE acceptCount(m, count)

\* the role grants handleGoalReached attempts, index.ts 373-392
GrantsAchiever == config.goal.roles.isObject /\ config.goal.roles.achiever
GrantsAssistant == config.goal.roles.isObject /\ config.goal.roles.assistant
Grants ==
    (IF GrantsAchiever THEN {"achiever"} ELSE {})
        \cup (IF GrantsAssistant THEN {"assistant"} ELSE {})

Resumed(h, step, saved, tried) ==
    Event(step, h.author, CountingChannel, Num(h.count), "Accepted", TRUE,
          saved, tried)

\* handleGoalReached returns and handleCount goes on: index.ts 316-319
finish(h) ==
    LET updated == [cache EXCEPT
                      !.lastCounter = h.author,
                      !.lastCount = nextLastCount(h.count, TRUE)]
    IN  /\ CanSave(updated)
        /\ cache' = updated
        /\ writes' = saveCache(updated)
        /\ handlers' = Resume(h)
        /\ last' = Resumed(h, "finished", TRUE, Grants)
        /\ UNCHANGED <<phase, config, disk, accepted>>

\* an await inside handleGoalReached throws: the rejection passes through
\* handleCount and handleMessage, and index.ts 316-319 never run
abort(h, tried) ==
    /\ handlers' = Resume(h)
    /\ last' = Resumed(h, "aborted", FALSE, tried)
    /\ UNCHANGED <<phase, config, cache, disk, writes, accepted>>

\* handleGoalReached suspends at its next await
await(h, pc) ==
    /\ handlers' = Resume(h) (+) SetToBag({[h EXCEPT !.pc = pc]})
    /\ last' = Sending(Resumed(h, "resumed", FALSE, {}), roleRequest(h, pc))
    /\ UNCHANGED <<phase, config, cache, disk, writes, accepted>>

\* guild.members.fetch(lastCounter) settles, index.ts 371: it is awaited
\* outside any try
fetchDone(h, ok) ==
    /\ h.pc = "fetch"
    /\ IF ~ok THEN abort(h, {})
       ELSE IF GrantsAchiever THEN await(h, "achiever")
       ELSE IF GrantsAssistant THEN await(h, "assistant")
       ELSE finish(h)

\* member.roles.add(achiever) settles, index.ts 376-383: a failure is caught
achieverDone(h, ok) ==
    /\ h.pc = "achiever"
    /\ IF GrantsAssistant THEN await(h, "assistant") ELSE finish(h)

\* lastCounter.roles.add(assistant) settles, index.ts 384-391: a failure is
\* caught and logged with lastCounter.user.tag, which exists when a member was
\* fetched; what fetch(null) yields is the client library's, so with no prior
\* counter the catch itself may throw
assistantDone(h, ok, threw) ==
    /\ h.pc = "assistant"
    /\ threw => ~ok /\ h.prior = Null
    /\ IF threw THEN abort(h, Grants) ELSE finish(h)

\* a writeJSON call fails: saveCache has no catch (index.ts 80-83) and its
\* caller neither awaits nor catches it (index.ts 319), so the rejection is
\* unhandled; the process goes on or exits, as the runtime decides
writeFailed(w) ==
    /\ last' = [NoEvent("writeFailed") EXCEPT !.outcome = "Unhandled"]
    /\ \/ /\ writes' = writes \ {w}
          /\ UNCHANGED <<phase, handlers>>
       \/ /\ phase' = "exited"
          /\ writes' = {}
          /\ handlers' = EmptyBag

\* a writeJSON call settles, index.ts 81: the file takes the content the call
\* serialised, or the write fails and the file stays; calls in flight together
\* settle in any order and may leave the file garbled
writeDone(w, result) ==
    /\ w \in writes
    /\ result \in {Json(w), disk}
                      \cup (IF Cardinality(writes) > 1 THEN {Garbled} ELSE {})
    /\ disk' = result
    /\ IF result = Json(w)
           THEN /\ writes' = writes \ {w}
                /\ last' = NoEvent("written")
                /\ UNCHANGED <<phase, handlers>>
           ELSE writeFailed(w)
    /\ UNCHANGED <<config, cache, accepted>>

WriteResults == {Missing, Garbled} \cup { Json(w) : w \in writes } \cup {disk}

InitStore == Init /\ config \in StoreConfigs

\* the engine on the store as it is: a message arrives while the writes of
\* earlier ones are outstanding, and a write may fail; the messages are
\* processed one after another
NextStore ==
    \/ launch
    \/ \E m \in Messages : Active = {} /\ handleMessage(m)
    \/ \E h \in Active, ok \in BOOLEAN : fetchDone(h, ok)
    \/ \E h \in Active, ok \in BOOLEAN : achieverDone(h, ok)
    \/ \E h \in Active, ok \in BOOLEAN, threw \in BOOLEAN : assistantDone(h, ok, threw)
    \/ \E w \in writes, result \in WriteResults : writeDone(w, result)

\* the engine on a store that is slow and reliable: every write succeeds, but
\* a message may arrive while the writes of earlier ones are outstanding, and
\* writes outstanding together (fs.writeFile calls on one path, none waiting
\* for another) complete in any order; the messages are processed one after
\* another
NextSlow ==
    \/ launch
    \/ \E m \in Messages : Active = {} /\ handleMessage(m)
    \/ \E h \in Active, ok \in BOOLEAN : fetchDone(h, ok)
    \/ \E h \in Active, ok \in BOOLEAN : achieverDone(h, ok)
    \/ \E h \in Active, ok \in BOOLEAN, threw \in BOOLEAN : assistantDone(h, ok, threw)
    \/ \E w \in writes : writeDone(w, Json(w))

\* the engine on a store that is prompt and reliable: every write succeeds,
\* and has settled when the next message arrives; messages still arrive while
\* earlier ones are suspended in goal handling
Next ==
    \/ launch
    \/ \E m \in Messages : writes = {} /\ handleMessage(m)
    \/ \E h \in Active, ok \in BOOLEAN : fetchDone(h, ok)
    \/ \E h \in Active, ok \in BOOLEAN : achieverDone(h, ok)
    \/ \E h \in Active, ok \in BOOLEAN, threw \in BOOLEAN : assistantDone(h, ok, threw)
    \/ \E w \in writes : writeDone(w, Json(w))

\* the same with the messages processed one after another: a message arrives
\* only when no earlier one is suspended in goal handling
NextSeq ==
    \/ launch
    \/ \E m \in Messages : writes = {} /\ Active = {} /\ handleMessage(m)
    \/ \E h \in Active, ok \in BOOLEAN : fetchDone(h, ok)
    \/ \E h \in Active, ok \in BOOLEAN : achieverDone(h, ok)
    \/ \E h \in Active, ok \in BOOLEAN, threw \in BOOLEAN : assistantDone(h, ok, threw)
    \/ \E w \in writes : writeDone(w, Json(w))

\* isCorrectCount on its own: a cache and a counting section, and counts asked
\* of it
CorrectConfigs ==
    { MakeConfig(BaseBlacklist, c, BaseGoal) :
        c \in [ amount : {Unit \div 2, Unit, 2 * Unit},
                direction : {NEGATIVE, 0, POSITIVE, 2},
                multipleBySameUser : {FALSE}, isNullish : {FALSE} ] }

HalfUnits == { k * (Unit \div 2) : k \in (-4)..(2 * MaxCount + 4) }

InitCorrect ==
    /\ phase = "running"
    /\ config \in CorrectConfigs
    /\ cache \in { [FreshCache EXCEPT !.lastCount = v * Unit] : v \in 0..MaxCount }
    /\ disk = Missing
    /\ writes = {}
    /\ handlers = EmptyBag
    /\ last = NoEvent("none")
    /\ accepted = Null

ask(count) ==
    /\ last' = Event("asked", Null, CountingChannel, Num(count),
                     IF isCorrectCount(count) THEN "correct" ELSE "incorrect",
                     FALSE, FALSE, {})
    /\ UNCHANGED <<phase, config, cache, disk, writes, handlers, accepted>>

\* the engine started on every kind of stored blob, its messages processed
\* one after another
LoadConfigs ==
    StoreConfigs
        \cup { MakeConfig(BaseBlacklist, BaseCount,
                          [BaseGoal EXCEPT !.trackStatistics = FALSE]) }

Blobs ==
    {Missing, Garbled, Json(NullCache), Json(LegacyCache), Json(StoredCache)}

InitLoad ==
    /\ phase = "constructed"
    /\ config \in LoadConfigs
    /\ cache = FreshCache
    /\ disk \in Blobs
    /\ writes = {}
    /\ handlers = EmptyBag
    /\ last = NoEvent("none")
    /\ accepted = Null

\* the engine from its construction on, with the configurations a caller may
\* hand the constructor: baseConfig (with and without role grants); a value
\* that is no object (undefined, null, a string); an object without a count
\* section, without a goal section, and with no section at all
BaseConfig == MakeConfig(BaseBlacklist, BaseCount, BaseGoal)

NotObjects ==
    { [BaseConfig EXCEPT !.isObject = FALSE, !.isNullish = TRUE],
      [BaseConfig EXCEPT !.isNullish = TRUE],
      [BaseConfig EXCEPT !.isObject = FALSE] }

WithoutSections ==
    { [BaseConfig EXCEPT !.count.isNullish = TRUE],
      [BaseConfig EXCEPT !.goal.isObject = FALSE, !.goal.isNullish = TRUE],
      [BaseConfig EXCEPT !.channel = Null,
                         !.blacklist = [isArray |-> FALSE, ids |-> {}],
                         !.count.isNullish = TRUE,
                         !.goal.isObject = FALSE, !.goal.isNullish = TRUE] }

ConstructConfigs == StoreConfigs \cup NotObjects \cup WithoutSections

InitConstruct ==
    /\ phase = "new"
    /\ config \in ConstructConfigs
    /\ cache = FreshCache
    /\ disk \in {Missing, Json(StoredCache)}
    /\ writes = {}
    /\ handlers = EmptyBag
    /\ last = NoEvent("none")
    /\ accepted = Null

NextConstruct ==
    \/ construct
    \/ NextSeq

\* the engine started on no stored state, with statistics tracked
InitFresh == Init /\ disk = Missing /\ config.goal.trackStatistics

\* the engine started on no stored state, its participants posting numbers
\* with a minus sign too; messages arrive while earlier ones are suspended in
\* goal handling
SignedMessages ==
    Messages \cup [author : Users, channel : {CountingChannel},
                   body : SignedBodies]

InitSigned == Init /\ disk = Missing

NextSigned ==
    \/ launch
    \/ \E m \in SignedMessages : writes = {} /\ handleMessage(m)
    \/ \E h \in Active, ok \in BOOLEAN : fetchDone(h, ok)
    \/ \E h \in Active, ok \in BOOLEAN : achieverDone(h, ok)
    \/ \E h \in Active, ok \in BOOLEAN, threw \in BOOLEAN : assistantDone(h, ok, threw)
    \/ \E w \in writes : writeDone(w, Json(w))

\* the engine with its launch taken step by step, on a store that is prompt
\* and reliable, its messages processed one after another
InitLaunch ==
    /\ phase = "constructed"
    /\ config \in StoreConfigs
    /\ cache = FreshCache
    /\ disk \in {Missing, Garbled, Json(StoredCache)}
    /\ writes = {}
    /\ handlers = EmptyBag
    /\ last = NoEvent("none")
    /\ accepted = Null

NextLaunch ==
    \/ beginLaunch
    \/ readJSONDone
    \/ loginDone
    \/ \E m \in Messages : unheard(m)
    \/ \E m \in Messages : writes = {} /\ Active = {} /\ handleMessage(m)
    \/ \E h \in Active, ok \in BOOLEAN : fetchDone(h, ok)
    \/ \E h \in Active, ok \in BOOLEAN : achieverDone(h, ok)
    \/ \E h \in Active, ok \in BOOLEAN, threw \in BOOLEAN : assistantDone(h, ok, threw)
    \/ \E w \in writes : writeDone(w, Json(w))

\* saveCache and loadCache on their own: a cache, saved, and read back
JsonStats ==
    UNION { [us -> {[counts |-> 1], [counts |-> 10 * MaxTally + 2]}] :
              us \in SUBSET Users }

JsonCaches ==
    [ shape : {"state"}, countStats : JsonStats,
      lastCount : { 0, Unit \div 2, Unit, Unit + Unit \div 10,
                    MaxCount * Unit, 12 * Unit, 0 - Unit },
      lastCounter : Users \cup {Null} ]
        \cup [ shape : {"legacy"}, countStats : {NoStats},
               lastCount : {0, Unit \div 2, 12 * Unit},
               lastCounter : Users \cup {Null} ]
        \cup {NullCache}

InitJson ==
    /\ phase = "running"
    /\ config = MakeConfig(BaseBlacklist, BaseCount, BaseGoal)
    /\ cache \in JsonCaches
    /\ disk = Missing
    /\ writes = {}
    /\ handlers = EmptyBag
    /\ last = NoEvent("none")
    /\ accepted = Null

\* a call of saveCache, index.ts 80-83
save ==
    /\ writes = {}
    /\ writes' = saveCache(cache)
    /\ last' = NoEvent("save")
    /\ UNCHANGED <<phase, config, cache, disk, handlers, accepted>>

\* a call of loadCache, index.ts 67-75
loadCache ==
    /\ writes = {}
    /\ cache' = loaded
    /\ last' = NoEvent("loaded")
    /\ UNCHANGED <<phase, config, disk, writes, handlers, accepted>>

NextJson ==
    \/ save
    \/ \E w \in writes : writeDone(w, Json(w))
    \/ loadCache

\* parseCount on its own: every text of at most MaxLen characters of the
\* alphabet is parsed
Alphabet == {"1", "2", ".", "x", " ", "\t", "\n"}

Texts == UNION { [1..n -> Alphabet] : n \in 0..MaxLen }

InitParse == InitJson /\ cache = FreshCache

parse(content) ==
    /\ last' = [step |-> "parsed", content |-> content,
                count |-> parseCount(content)]
    /\ UNCHANGED <<phase, config, cache, disk, writes, handlers, accepted>>

NextParse == \E content \in Texts : parse(content)

\* the engine with and without a goal section, counting down to zero, its
\* messages processed one after another
GoalConfigs ==
    { MakeConfig(BaseBlacklist, [BaseCount EXCEPT !.direction = NEGATIVE], g) :
        g \in AbsentGoals
                 \cup { [BaseGoal EXCEPT !.roles = r] : r \in RolesSections }
                 \cup { [BaseGoal EXCEPT !.announce = FALSE] } }

InitGoal ==
    /\ phase = "constructed"
    /\ config \in GoalConfigs
    /\ cache = FreshCache
    /\ disk = Json(StoredCache)
    /\ writes = {}
    /\ handlers = EmptyBag
    /\ last = NoEvent("none")
    /\ accepted = Null

\* getExpectedCount on its own, next to isCorrectCount: counting sections
\* with whole, half and very small amounts
ExpectedConfigs ==
    { MakeConfig(BaseBlacklist, c, BaseGoal) :
        c \in [ amount : {Unit, Unit \div 2, Unit \div 2000},
                direction : {NEGATIVE, 0, POSITIVE, 2},
                multipleBySameUser : {FALSE}, isNullish : {FALSE} ] }

InitExpected ==
    /\ phase = "running"
    /\ config \in ExpectedConfigs
    /\ cache \in { [FreshCache EXCEPT !.lastCount = v * Unit] : v \in 0..MaxCount }
    /\ disk = Missing
    /\ writes = {}
    /\ handlers = EmptyBag
    /\ last = NoEvent("none")
    /\ accepted = Null

expect ==
    /\ last' = [step |-> "expected", named |-> getExpectedCount]
    /\ UNCHANGED <<phase, config, cache, disk, writes, handlers, accepted>>

NextExpected ==
    \/ expect
    \/ \E count \in HalfUnits : ask(count)

NextCorrect == \E count \in HalfUnits : ask(count)

Spec == Init /\ [][Next]_vars
SpecConstruct == InitConstruct /\ [][NextConstruct]_vars
SpecCorrect == InitCorrect /\ [][NextCorrect]_vars
SpecFresh == InitFresh /\ [][NextSeq]_vars
SpecExpected == InitExpected /\ [][NextExpected]_vars
SpecGoal == InitGoal /\ [][NextSeq]_vars
SpecJson == InitJson /\ [][NextJson]_vars
SpecLaunch == InitLaunch /\ [][NextLaunch]_vars
SpecLoad == InitLoad /\ [][NextSeq]_vars
SpecParse == InitParse /\ [][NextParse]_vars
SpecSeq == Init /\ [][NextSeq]_vars
SpecSigned == InitSigned /\ [][NextSigned]_vars
SpecSlow == InitStore /\ [][NextSlow]_vars
SpecStore == InitStore /\ [][NextStore]_vars

-----------------------------------------------------------------------------
(* Claims *)

MessageStep == last'.step = "message"

\* the guards of the message state machine in their order, each with the
\* outcome it decides, for message e read in the state it arrives in
Guards(e) ==
    << <<e.author \in Bots, "IgnoredBot">>,
       <<e.channel # config.channel, "IgnoredChannel">>,
       <<config.blacklist.isArray /\ e.author \in config.blacklist.ids,
         "Blacklisted">>,
       <<e.count.nan, "NotANumber">>,
       <<~isCorrectCount(e.count.val), "WrongValue">>,
       <<e.author = cache.lastCounter /\ ~config.count.multipleBySameUser,
         "RepeatedTurn">>,
       <<TRUE, "Accepted">> >>

FirstGuard(e) ==
    LET g == Guards(e)
        i == CHOOSE k \in 1..Len(g) : g[k][1] /\ \A j \in 1..(k - 1) : ~g[j][1]
    IN  g[i][2]

\* C1: the outcome of every inbound message is the one of the first guard
\* that matches, in the order bot, channel, blacklist, NaN, wrong value,
\* repeated turn, and Accepted when none does
C1_GuardOrder == [][MessageStep => last'.outcome = FirstGuard(last')]_vars

\* a wrong-valued message by the last counter has been reported as WrongValue
C1_Witness ==
    /\ last.step = "message"
    /\ last.outcome = "WrongValue"
    /\ last.author = cache.lastCounter
    /\ ~config.count.multipleBySameUser

\* C2: a message that is ignored or rejected leaves lastCount, lastCounter
\* and countStats as they were before it
C2_RejectionFrame ==
    [][MessageStep /\ last'.outcome \in Ignored \cup Rejections
         => /\ cache'.lastCount = cache.lastCount
            /\ cache'.lastCounter = cache.lastCounter
            /\ cache'.countStats = cache.countStats]_vars

\* a message has been rejected in a state that holds a count and a tally
C2_Witness ==
    /\ last.step = "message"
    /\ last.outcome \in Rejections
    /\ cache.lastCounter # Null
    /\ cache.lastCounter # last.author
    /\ DOMAIN cache.countStats # {}

\* the processing of an accepted message has ended
Ended ==
    /\ last.outcome = "Accepted"
    /\ \/ last.step = "message" /\ ~last.goal
       \/ last.step \in {"finished", "aborted"}

\* C3: once the processing of an accepted message has ended, lastCounter is
\* its author and lastCount is goal.resetValue when it reached a goal with
\* goal.reset set, and the accepted count otherwise
C3_AcceptedUpdate ==
    Ended => /\ cache.lastCounter = last.author
             /\ cache.lastCount =
                    IF last.goal /\ config.goal.reset
                        THEN config.goal.resetValue ELSE last.count.val

\* C4: no message is accepted against a lastCount that a message still
\* between its validation and its write was accepted against
C4_AcceptedOncePerValue ==
    [][MessageStep /\ last'.outcome = "Accepted"
         => \A h \in Active : h.seen # cache.lastCount]_vars

\* C5: with multipleBySameUser false and the messages processed one after
\* another, no message by the last counter is accepted, and no two consecutive
\* accepted counts are by the same participant
C5_TurnRule ==
    [][MessageStep /\ ~config.count.multipleBySameUser
         => /\ last'.author = cache.lastCounter => last'.outcome # "Accepted"
            /\ last'.outcome = "Accepted" => last'.author # accepted]_vars

\* what the counting section accepts after lastCount
CorrectAfter(lastCount) ==
    IF config.count.direction = -1 THEN {lastCount - config.count.amount}
    ELSE IF config.count.direction = 1 THEN {lastCount + config.count.amount}
    ELSE {lastCount - config.count.amount, lastCount + config.count.amount}

\* C6: isCorrectCount(count) is true exactly of lastCount - amount in the
\* negative direction, of lastCount + amount in the positive direction and
\* of both in any other; so lastCount + amount + 1 is not correct counting up
C6_IsCorrectCount ==
    /\ last.step = "asked"
         => (last.outcome = "correct"
               <=> last.count.val \in CorrectAfter(cache.lastCount))
    /\ config.count.direction = 1
         => /\ isCorrectCount(cache.lastCount + config.count.amount)
            /\ ~isCorrectCount(cache.lastCount + config.count.amount + Unit)

\* counting either way, the decrement has been asked and found correct
C6_Witness ==
    /\ last.step = "asked"
    /\ config.count.direction \notin {-1, 1}
    /\ last.count.val = cache.lastCount - config.count.amount
    /\ last.outcome = "correct"

\* C7: a participant of the blacklist who is no bot and posts in the counting
\* channel is rejected as Blacklisted and the state stays; when the blacklist
\* is no list, nobody is rejected as Blacklisted
C7_Blacklist ==
    [][MessageStep
         => /\ ( /\ last'.author \notin Bots
                 /\ last'.channel = config.channel
                 /\ config.blacklist.isArray
                 /\ last'.author \in config.blacklist.ids )
               => last'.outcome = "Blacklisted" /\ cache' = cache
            /\ ~config.blacklist.isArray
               => last'.outcome \in (Ignored \cup Rejections \cup {"Accepted"})
                                        \ {"Blacklisted"}]_vars

\* a blacklisted participant has been rejected for a count that is correct
\* and in turn
C7_Witness ==
    /\ last.step = "message"
    /\ last.outcome = "Blacklisted"
    /\ ~last.count.nan
    /\ isCorrectCount(last.count.val)
    /\ cache.lastCounter \notin {Null, last.author}

\* C8: once an accepted count has fired a goal, and once that goal event has
\* completed, countStats is empty
C8_GoalClearsStats ==
    last.goal /\ last.step \in {"message", "finished"}
        => cache.countStats = NoStats

\* C9: when a goal handler has ended, whatever collaborator call failed in it,
\* every configured role grant was attempted, lastCounter and lastCount are
\* updated and saveCache was called
C9_FailureIsolated ==
    last.step \in {"finished", "aborted"}
        => /\ last.tried = Grants
           /\ cache.lastCounter = last.author
           /\ cache.lastCount = nextLastCount(last.count.val, TRUE)
           /\ last.saved

\* the stored blob is the in-memory state (none while nothing has been saved)
Persisted ==
    \/ disk = Json(cache)
    \/ disk = Missing /\ cache = FreshCache

\* C10: when an inbound event starts being processed, every earlier write has
\* completed and the stored blob equals the in-memory state
C10_PersistedBeforeNext ==
    [][MessageStep => writes = {} /\ Persisted]_vars

\* a stored blob that holds a well-formed state
WellFormed(blob) == blob.kind = "json" /\ parseJson(blob.value).shape = "state"

\* C11: started on a blob that is missing, unreadable or holds no well-formed
\* state, the engine has the fresh state once loadCache is done, and no later
\* message fails
C11_LoadFallback ==
    /\ last.step = "launch" /\ ~WellFormed(disk) => cache = FreshCache
    /\ last.step = "message" => last.outcome # "Threw"

\* C12: a saveCache that has completed, followed at once by a loadCache,
\* yields the lastCount, lastCounter and countStats that were saved
C12_RoundTrip ==
    [][last.step = "written" /\ last'.step = "loaded"
         => /\ cache'.lastCount = cache.lastCount
            /\ cache'.lastCounter = cache.lastCounter
            /\ cache'.countStats = cache.countStats]_vars

\* a state with a fractional count, a counter and two tallies has been read
\* back from the file it was saved to
C12_Witness ==
    /\ last.step = "loaded"
    /\ disk = Json(cache)
    /\ cache.lastCount % Unit # 0
    /\ cache.lastCounter # Null
    /\ DOMAIN cache.countStats = Users

Whitespace == {" ", "\t", "\n"}

\* the first whitespace-delimited token of a text: leading whitespace is
\* skipped, and the token ends at the next whitespace character
RECURSIVE UpToWhitespace(_), FirstWord(_)
UpToWhitespace(t) ==
    IF t = <<>> \/ Head(t) \in Whitespace THEN <<>>
    ELSE <<Head(t)>> \o UpToWhitespace(Tail(t))

FirstWord(t) ==
    IF t # <<>> /\ Head(t) \in Whitespace THEN FirstWord(Tail(t))
    ELSE UpToWhitespace(t)

\* C13: parseCount(text) is the number denoted by what is left of the first
\* whitespace-delimited token of text once every character that is no digit
\* and no decimal point is removed, and NaN when that starts no number
C13_ParseCount ==
    last.step = "parsed"
        => last.count = parseFloat(StripNonNumeric(FirstWord(last.content)))

\* the configuration has a goal section
GoalPresent == config.goal.isObject /\ ~config.goal.isNullish

\* C14: an accepted count fires a goal exactly when the goal section is
\* present and goal.multiple divides the count; without a goal section a
\* correct count in turn is accepted, fires no goal and becomes lastCount, its
\* author lastCounter
C14_GoalFires ==
    [][MessageStep
         => /\ last'.outcome = "Accepted"
               => (last'.goal <=> /\ GoalPresent
                                  /\ last'.count.val % config.goal.multiple = 0)
            /\ ~GoalPresent /\ FirstGuard(last') = "Accepted"
               => /\ last'.outcome = "Accepted"
                  /\ ~last'.goal
                  /\ cache'.lastCount = last'.count.val
                  /\ cache'.lastCounter = last'.author]_vars

\* the issue reports a step sent to the counting channel
IssueReports(e) ==
    SelectSeq(e.sent, LAMBDA n : n.kind = "issue" /\ n.channel = config.channel)

\* C15: a message rejected as Blacklisted, NotANumber, WrongValue or
\* RepeatedTurn sends exactly one issue report to the counting channel; an
\* ignored and an accepted message send none
C15_OneReport ==
    [][MessageStep
         => /\ last'.outcome \in Rejections => Len(IssueReports(last')) = 1
            /\ last'.outcome \in Ignored \cup {"Accepted"}
                 => Len(IssueReports(last')) = 0]_vars

\* a repeated turn has been reported
C15_Witness ==
    /\ last.step = "message"
    /\ last.outcome = "RepeatedTurn"
    /\ Len(IssueReports(last)) = 1
    /\ last.sent[1].issue = "RepeatedTurn"

\* C16: once the engine runs, every change of lastCount puts there a count
\* that is correct after the value it replaces, or goal.resetValue on a goal
\* with goal.reset set
C16_LastCountChanges ==
    [][phase = "running" /\ cache'.lastCount # cache.lastCount
         => \/ isCorrectCount(cache'.lastCount)
            \/ /\ last'.goal
               /\ config.goal.reset
               /\ cache'.lastCount = config.goal.resetValue]_vars

\* C17: when a write of the cache fails, the cache keeps the accepted
\* update, nothing is sent to the chat, the failure is caught and logged, and
\* the engine goes on handling messages
C17_WriteFailureHandled ==
    [][last'.step = "writeFailed"
         => /\ cache' = cache
            /\ last'.sent = <<>>
            /\ last'.outcome = "Logged"
            /\ phase' = "running"]_vars

\* a message that fires a goal is being handled
GoalStep == MessageStep /\ last'.outcome = "Accepted" /\ last'.goal

Named(values) == { values[i] : i \in 1..Len(values) }

\* C19: the expectation reported is lastCount - amount in the negative
\* direction, lastCount + amount in the positive direction, and lastCount -
\* amount or lastCount + amount in any other; the values it names are exactly
\* the counts isCorrectCount accepts in that state
C19_ExpectedCount ==
    last.step = "expected"
        => /\ last.named =
                IF config.count.direction = -1
                    THEN <<cache.lastCount - config.count.amount>>
                ELSE IF config.count.direction = 1
                    THEN <<cache.lastCount + config.count.amount>>
                ELSE << cache.lastCount - config.count.amount,
                        cache.lastCount + config.count.amount >>
           /\ \A count \in Named(last.named) : isCorrectCount(count)
           /\ \A count \in CorrectAfter(cache.lastCount) :
                count \in Named(last.named)

\* the participant a goal by author has for assistant, prior being the
\* participant who made the count before it
AssistantOf(author, prior) ==
    IF prior # Null /\ prior # author THEN prior ELSE Null

\* C20: when a goal fires, lastCounter is the participant who made the
\* preceding accepted count; the announcement credits that participant with
\* assistance exactly when there is one and it is not the author; the
\* achiever role is asked for the author and the assistant role for that
\* participant, each only when it is configured
C20_Assistant ==
    [][/\ GoalStep
          => /\ accepted # Null => cache.lastCounter = accepted
             /\ \A i \in 1..Len(last'.sent) :
                  /\ last'.sent[i].achiever = last'.author
                  /\ last'.sent[i].assistant
                       = AssistantOf(last'.author, cache.lastCounter)
       /\ last'.step = "resumed"
          => \A i \in 1..Len(last'.sent) :
               /\ last'.sent[i].role \in Grants
               /\ \E h \in Active :
                    /\ h.author = last'.author
                    /\ last'.sent[i].member =
                         IF last'.sent[i].role = "achiever" THEN h.author
                         ELSE h.prior]_vars

\* the configuration is an object that has its count and goal sections
ValidConfig ==
    /\ config.isObject /\ ~config.isNullish
    /\ ~config.count.isNullish
    /\ ~config.goal.isNullish

\* C21: an engine handed a configuration that is absent, null, no object, or
\* an object without its count or goal section fails in its constructor: it
\* is never constructed, and no message is ever handled by it
C21_FailFast ==
    ~ValidConfig => /\ phase \in {"new", "failed"}
                    /\ last.step # "message"

\* C22: a launch loads the stored state once, before handleMessage is
\* registered: the load follows the call of launch at once, finds the cache
\* as the constructor left it and puts there what the store holds whenever
\* that can be read; every message is handled after it, and none is handled
\* on the fresh state while the store holds a state that can be read
C22_LoadBeforeMessages ==
    [][/\ last'.step = "loaded"
          => /\ last.step = "launching"
             /\ cache = FreshCache /\ accepted = Null
             /\ disk.kind = "json" => cache' = parseJson(disk.value)
             /\ phase' # "loading"
       /\ MessageStep
          => /\ phase = "running"
             /\ disk.kind = "json" => cache # FreshCache]_vars

\* a message has been rejected against the stored state, unchanged since it
\* was loaded
C22_Witness ==
    /\ last.step = "message"
    /\ last.outcome = "WrongValue"
    /\ disk = Json(StoredCache)
    /\ cache = StoredCache

\* C23: when the last outstanding write has completed, every write having
\* succeeded, and no message is being processed, the stored blob is the
\* in-memory state: the content of an earlier write never replaces that of a
\* later one
C23_LastWriteWins ==
    last.step = "written" /\ writes = {} /\ Active = {} => disk = Json(cache)

\* the sum of the tallies
RECURSIVE TallySum(_)
TallySum(stats) ==
    IF DOMAIN stats = {} THEN 0
    ELSE LET u == CHOOSE x \in DOMAIN stats : TRUE
         IN  stats[u].counts
                 + TallySum([x \in DOMAIN stats \ {u} |-> stats[x]])

AcceptedStep == MessageStep /\ last'.outcome = "Accepted"

\* C24: started fresh with statistics tracked and the messages processed one
\* after another, the sum of the tallies counts the messages accepted since
\* the last goal: it is 0 once a goal has fired, one more after every other
\* accepted message, and unchanged by any other step; every tally present is
\* at least 1
C24_TallySum ==
    [][/\ \A u \in DOMAIN cache'.countStats : cache'.countStats[u].counts >= 1
       /\ TallySum(cache'.countStats) =
             IF AcceptedStep /\ last'.goal THEN 0
             ELSE IF AcceptedStep THEN TallySum(cache.countStats) + 1
             ELSE TallySum(cache.countStats)]_vars

\* four messages have been accepted since the start, two of each participant
C24_Witness ==
    /\ last.step = "message"
    /\ last.outcome = "Accepted"
    /\ TallySum(cache.countStats) = 4
    /\ \A u \in Users : Tally(u) = 2

\* C25: the count parsed from a message is never negative, whatever minus
\* signs its text has, and, started fresh with goal.resetValue at least 0,
\* lastCount is never negative in any direction and with any amount
C25_NeverNegative ==
    /\ config.goal.resetValue >= 0 => cache.lastCount >= 0
    /\ last.step = "message" /\ ~last.count.nan => last.count.val >= 0

\* counting down from 0, a message "-.5" has been read as 0.5 and rejected
C25_Witness ==
    /\ last.step = "message"
    /\ last.count = Num(Unit \div 2)
    /\ last.outcome = "WrongValue"
    /\ config.count.direction = NEGATIVE
    /\ cache.lastCount = 0

\* the participants whose message passes the bot, channel and blacklist
\* guards and who are not the last counter
Eligible == { u \in Users : ~isBlacklisted(u) /\ u # cache.lastCounter }

\* the texts a participant may try: those of the model, and every count that
\* is correct after lastCount written out in digits, with its sign
Candidates ==
    Bodies \cup SignedBodies
        \cup { numberText(v) : v \in CorrectAfter(cache.lastCount) }

\* a message with this text by this participant is accepted and changes
\* lastCount
Progresses(author, body) ==
    LET count == parseCount(body)
    IN  /\ validateCount(author, count) = "Accepted"
        /\ ~throwsAccepting(count.val)
        /\ nextLastCount(count.val, reachedGoal(count.val)) # cache.lastCount

\* C26: in every state of the running engine, whatever the direction, when
\* the amount is above 0 there is a text that is accepted, and changes
\* lastCount, when a participant who is no bot, not blacklisted and not the
\* last counter posts it in the counting channel
C26_CanProgress ==
    phase = "running" /\ config.count.amount > 0
        => \A u \in Eligible : \E body \in Candidates : Progresses(u, body)

=============================================================================
